---- MODULE Spec2Model ----
(***************************************************************************)
(* Unused-import detection of src/main.rs: the ImportCollector visitor,    *)
(* the IdentifierCollector visitor and the reconciliation loop of          *)
(* find_unused_imports, over a syntax tree of the node kinds the two       *)
(* visitors match on.  A node is a record with a `kind` field.  A visitor  *)
(* method the source overrides handles its node as the source does and     *)
(* descends no further unless the source calls a visit method itself; a    *)
(* node kind the source does not override gets the Visit trait's default,  *)
(* which visits the node's children in field order.                        *)
(***************************************************************************)
EXTENDS Integers, Sequences, FiniteSets, TLC

\* Longest module body (number of top-level items) that is explored.
MaxItems == 2

\* Largest number of import specifiers of a module in the import-only runs.
MaxSpecifiers == 3

VARIABLES
    module,    \* the module body: the top-level items, in source order
    schedule,  \* "sequential": the usage pass starts when the import pass ended
    iTodo,     \* ImportCollector: the items still to visit
    imports,   \* ImportCollector.imports
    uTodo,     \* IdentifierCollector: the nodes still to visit, next first
    used,      \* IdentifierCollector.used_identifiers
    pc,        \* "collect" until the reconciliation loop has run, then "done"
    unused     \* the vector find_unused_imports returns

vars == <<module, schedule, iTodo, imports, uTodo, used, pc, unused>>

\* Identifier names.  "A" and "a" differ only in case.
Names == {"A", "a", "B"}

None == [kind |-> "None"]

(***************************************************************************)
(* Syntax tree nodes                                                       *)
(***************************************************************************)
Ident(sym) == [kind |-> "Ident", sym |-> sym]

Str(value) == [kind |-> "Str", value |-> value]

NamedSpecifier(local, imported) == [kind |-> "Named", local |-> local, imported |-> imported]

DefaultSpecifier(local) == [kind |-> "Default", local |-> local]

NamespaceSpecifier(local) == [kind |-> "Namespace", local |-> local]

ImportDecl(type_only, specifiers) ==
    [kind |-> "ImportDecl", type_only |-> type_only, specifiers |-> specifiers]

MemberExpr(obj, prop) == [kind |-> "Member", obj |-> obj, prop |-> prop]

NewExpr(callee, args) == [kind |-> "New", callee |-> callee, args |-> args]

TaggedTpl(tag, exprs) == [kind |-> "TaggedTpl", tag |-> tag, exprs |-> exprs]

TsQualifiedName(left, right) == [kind |-> "TsQualifiedName", left |-> left, right |-> right]

TsTypeRef(type_name, type_params) ==
    [kind |-> "TsTypeRef", type_name |-> type_name, type_params |-> type_params]

TsUnionType(types) == [kind |-> "TsUnionType", types |-> types]

TsTypeAnn(type_ann) == [kind |-> "TsTypeAnn", type_ann |-> type_ann]

BindingIdent(id, type_ann) == [kind |-> "BindingIdent", id |-> id, type_ann |-> type_ann]

VarDeclarator(name, init) == [kind |-> "VarDeclarator", name |-> name, init |-> init]

ExprStmt(expr) == [kind |-> "ExprStmt", expr |-> expr]

TsTypeAliasDecl(id, type_ann) == [kind |-> "TsTypeAliasDecl", id |-> id, type_ann |-> type_ann]

TsExprWithTypeArgs(expr) == [kind |-> "TsExprWithTypeArgs", expr |-> expr]

TsPropertySignature(type_ann) == [kind |-> "TsPropertySignature", type_ann |-> type_ann]

TsMethodSignature(type_ann) == [kind |-> "TsMethodSignature", type_ann |-> type_ann]

TsInterfaceDecl(id, extends, body) ==
    [kind |-> "TsInterfaceDecl", id |-> id, extends |-> extends, body |-> body]

(***************************************************************************)
(* ImportCollector                                                         *)
(***************************************************************************)
Named(name) == [tag |-> "Named", name |-> name]

Default(name) == [tag |-> "Default", name |-> name]

Namespace(name) == [tag |-> "Namespace", name |-> name]

\* An insert that keeps the value a key already has.
MapInsertKeepingFirst(map, key, value) ==
    [k \in DOMAIN map \cup {key} |-> IF k \in DOMAIN map THEN map[k] ELSE value]

\* HashMap::insert: a later value for the same key replaces the earlier one.
MapInsert(map, key, value) ==
    [k \in DOMAIN map \cup {key} |-> IF k = key THEN value ELSE map[k]]

EmptyMap == [k \in {} |-> None]

\* One arm of the match on the specifier.
InsertSpecifier(map, specifier) ==
    LET local == specifier.local.sym
    IN  CASE specifier.kind = "Named" ->
               LET imported ==
                     CASE specifier.imported.kind = "Ident" -> specifier.imported.sym
                       [] specifier.imported.kind = "Str" -> specifier.imported.value
                       [] OTHER -> specifier.local.sym
               IN  MapInsert(map, local, Named(imported))
          [] specifier.kind = "Default" -> MapInsert(map, local, Default(local))
          [] OTHER -> MapInsert(map, local, Namespace(local))

\* The loop over the specifiers of one declaration, in source order.
RECURSIVE InsertSpecifiers(_, _)
InsertSpecifiers(map, specifiers) ==
    IF specifiers = <<>> THEN map
    ELSE InsertSpecifiers(InsertSpecifier(map, Head(specifiers)), Tail(specifiers))

ImportCollector_visit_import_decl(map, import_decl) ==
    InsertSpecifiers(map, import_decl.specifiers)

(***************************************************************************)
(* IdentifierCollector                                                     *)
(***************************************************************************)
\* Only the names the binding map holds at that moment are recorded.
visit_ident_if_imported(u, ident) ==
    IF ident.sym \in DOMAIN imports THEN u \cup {ident.sym} ELSE u

visit_ident(u, ident) == u \cup {ident.sym}

\* A member callee is decomposed: its object identifier is recorded as well.
visit_new_expr_decomposing(u, new_expr) ==
    CASE new_expr.callee.kind = "Ident" -> u \cup {new_expr.callee.sym}
      [] new_expr.callee.kind = "Member" /\ new_expr.callee.obj.kind = "Ident" ->
           u \cup {new_expr.callee.obj.sym}
      [] OTHER -> u

visit_new_expr(u, new_expr) ==
    IF new_expr.callee.kind = "Ident" THEN u \cup {new_expr.callee.sym} ELSE u

\* A type-only declaration records the local names of its specifiers.
visit_import_decl_recording(u, import) ==
    IF ~import.type_only THEN u
    ELSE u \cup {import.specifiers[i].local.sym : i \in DOMAIN import.specifiers}

\* Both branches (type-only or not) record nothing.
visit_import_decl(u, import) == IF ~import.type_only THEN u ELSE u

\* The type arguments that are plain references are recorded as well.
visit_ts_type_ref_with_args(u, type_ref) ==
    LET named == IF type_ref.type_name.kind = "Ident"
                 THEN {type_ref.type_name.sym}
                 ELSE (IF type_ref.type_name.left.kind = "Ident"
                       THEN {type_ref.type_name.left.sym} ELSE {})
                          \cup {type_ref.type_name.right.sym}
        args == {type_ref.type_params[i].type_name.sym :
                    i \in {j \in DOMAIN type_ref.type_params :
                              /\ type_ref.type_params[j].kind = "TsTypeRef"
                              /\ type_ref.type_params[j].type_name.kind = "Ident"}}
    IN  u \cup named \cup args

visit_ts_type_ref(u, type_ref) ==
    IF type_ref.type_name.kind = "Ident"
    THEN u \cup {type_ref.type_name.sym}
    ELSE LET qual == type_ref.type_name
             withLeft == IF qual.left.kind = "Ident" THEN u \cup {qual.left.sym} ELSE u
         IN  withLeft \cup {qual.right.sym}

visit_ts_type_ann(u, type_ann) ==
    IF type_ann.type_ann.kind = "TsTypeRef"
    THEN visit_ts_type_ref(u, type_ann.type_ann)
    ELSE u

visit_ts_expr_with_type_args(u, type_args) ==
    IF type_args.expr.kind = "Ident" THEN u \cup {type_args.expr.sym} ELSE u

RECURSIVE VisitExtends(_, _)
VisitExtends(u, extends) ==
    IF extends = <<>> THEN u
    ELSE VisitExtends(visit_ts_expr_with_type_args(u, Head(extends)), Tail(extends))

RECURSIVE VisitMembers(_, _)
VisitMembers(u, body) ==
    IF body = <<>> THEN u
    ELSE LET member == Head(body)
             next == IF member.kind = "TsPropertySignature" /\ member.type_ann # None
                     THEN visit_ts_type_ann(u, member.type_ann)
                     ELSE u
         IN  VisitMembers(next, Tail(body))

visit_ts_interface_decl(u, interface) ==
    VisitMembers(VisitExtends(u, interface.extends), interface.body)

\* The property name of a member tag is recorded as well.
visit_tagged_tpl_with_prop(u, tpl) ==
    IF tpl.tag.kind = "Member"
    THEN (IF tpl.tag.obj.kind = "Ident" THEN u \cup {tpl.tag.obj.sym} ELSE u)
             \cup {tpl.tag.prop.sym}
    ELSE IF tpl.tag.kind = "Ident" THEN u \cup {tpl.tag.sym} ELSE u

visit_tagged_tpl(u, tpl) ==
    IF tpl.tag.kind = "Member"
    THEN IF tpl.tag.obj.kind = "Ident" THEN u \cup {tpl.tag.obj.sym} ELSE u
    ELSE IF tpl.tag.kind = "Ident" THEN u \cup {tpl.tag.sym} ELSE u

\* Node kinds IdentifierCollector does not override: the trait's default
\* visits the children.
DefaultKinds ==
    {"ExprStmt", "VarDeclarator", "BindingIdent", "Member", "TsTypeAliasDecl", "TsUnionType"}

Opt(node) == IF node = None THEN <<>> ELSE <<node>>

\* visit_children_with of a node of a default kind, in field order.  The
\* identifier a declaration binds and the property name of a member expression
\* are Ident nodes (as qual.right is in visit_ts_type_ref), so visit_ident
\* receives them.
Children(node) ==
    CASE node.kind = "ExprStmt" -> <<node.expr>>
      [] node.kind = "VarDeclarator" -> <<node.name>> \o Opt(node.init)
      [] node.kind = "BindingIdent" -> <<node.id>> \o Opt(node.type_ann)
      [] node.kind = "Member" -> <<node.obj, node.prop>>
      [] node.kind = "TsTypeAliasDecl" -> <<node.id, node.type_ann>>
      [] node.kind = "TsUnionType" -> node.types
      [] OTHER -> <<>>

(***************************************************************************)
(* The modules explored                                                    *)
(***************************************************************************)
\* Sequences over S of length lo..hi.
SeqsOf(S, lo, hi) == UNION {[1..n -> S] : n \in lo..hi}

Specifiers ==
    {NamedSpecifier(Ident(l), None) : l \in {"A", "a"}}
        \cup {NamedSpecifier(Ident("A"), Ident("B")), NamedSpecifier(Ident("B"), Str("A")),
              DefaultSpecifier(Ident("A")), NamespaceSpecifier(Ident("A"))}

\* Import declarations of the mixed modules: one specifier each.
Imports ==
    {ImportDecl(FALSE, <<s>>) : s \in Specifiers \ {NamedSpecifier(Ident("B"), Str("A"))}}
        \cup {ImportDecl(TRUE, <<NamedSpecifier(Ident("A"), None)>>)}

IdentExprs == {Ident(n) : n \in Names}

MemberExprs ==
    {MemberExpr(Ident("A"), Ident("B")),
     MemberExpr(MemberExpr(Ident("A"), Ident("B")), Ident("a"))}

ArgLists == {<<>>, <<Ident("A")>>}

NewExprs ==
    {NewExpr(c, a) : c \in {Ident("A"), Ident("B")} \cup MemberExprs, a \in ArgLists}

TaggedTpls ==
    {TaggedTpl(t, a) : t \in {Ident("A"), Ident("B"), NewExpr(Ident("B"), <<>>)} \cup MemberExprs,
                       a \in ArgLists}

Exprs == IdentExprs \cup MemberExprs \cup NewExprs \cup TaggedTpls

NestedExprs ==
    {NewExpr(Ident("B"), <<e>>) : e \in {TaggedTpl(Ident("B"), <<Ident("A")>>)}}
        \cup {MemberExpr(NewExpr(Ident("B"), <<Ident("A")>>), Ident("B"))}

PlainRefs == {TsTypeRef(Ident(n), <<>>) : n \in {"A", "B"}}

QualifiedRefs ==
    {TsTypeRef(TsQualifiedName(Ident("A"), Ident("B")), <<>>),
     TsTypeRef(TsQualifiedName(TsQualifiedName(Ident("A"), Ident("B")), Ident("a")), <<>>)}

GenericRefs ==
    {TsTypeRef(Ident("B"), <<t>>) : t \in {TsTypeRef(Ident("A"), <<>>)}}
        \cup {TsTypeRef(TsQualifiedName(Ident("B"), Ident("B")), <<TsTypeRef(Ident("A"), <<>>)>>)}

Types ==
    PlainRefs \cup QualifiedRefs \cup GenericRefs
        \cup {TsUnionType(<<TsTypeRef(Ident("A"), <<>>), TsTypeRef(Ident("B"), <<>>)>>)}

Interfaces ==
    {TsInterfaceDecl(Ident("B"), <<TsExprWithTypeArgs(e)>>, <<>>) :
        e \in {Ident("A"), MemberExpr(Ident("A"), Ident("B"))}}
        \cup {TsInterfaceDecl(Ident("A"), <<>>, <<m>>) :
                m \in {TsPropertySignature(TsTypeAnn(TsTypeRef(Ident("a"), <<>>))),
                       TsPropertySignature(None),
                       TsMethodSignature(TsTypeAnn(TsTypeRef(Ident("a"), <<>>)))}}

Statements ==
    {ExprStmt(e) : e \in Exprs \cup NestedExprs}
        \cup {TsTypeAliasDecl(Ident("B"), t) : t \in Types}
        \cup {VarDeclarator(BindingIdent(Ident("A"), None), e) : e \in {None, Ident("B")}}
        \cup {VarDeclarator(BindingIdent(Ident("B"), TsTypeAnn(t)), None) :
                t \in Types \ QualifiedRefs}
        \cup Interfaces

Items == Imports \cup Statements

Modules == SeqsOf(Items, 0, MaxItems)

\* The declarations a specifier list falls into when a new declaration
\* starts after each position in cuts.
RECURSIVE SplitAt(_, _, _, _)
SplitAt(specifiers, cuts, type_only, from) ==
    IF from > Len(specifiers) THEN <<>>
    ELSE LET ends == {i \in from..Len(specifiers) : i \in cuts \/ i = Len(specifiers)}
             to == CHOOSE i \in ends : \A j \in ends : i <= j
         IN  <<ImportDecl(type_only, SubSeq(specifiers, from, to))>>
                 \o SplitAt(specifiers, cuts, type_only, to + 1)

\* Modules of import declarations only, with up to MaxSpecifiers specifiers
\* spread over the declarations in every way.
ImportOnlyModules ==
    {SplitAt(ss, cuts, t, 1) :
        ss \in SeqsOf(Specifiers, 0, MaxSpecifiers),
        cuts \in SUBSET (1..(MaxSpecifiers - 1)),
        t \in BOOLEAN}

(***************************************************************************)
(* find_unused_imports                                                     *)
(***************************************************************************)
Start(m, s) ==
    /\ module = m
    /\ schedule = s
    /\ iTodo = m
    /\ imports = EmptyMap
    /\ uTodo = m
    /\ used = {}
    /\ pc = "collect"
    /\ unused = <<>>

Init == \E m \in Modules : Start(m, "sequential")

\* import_collector.visit_module, one top-level item at a time.
ImportVisitImportDecl ==
    /\ iTodo # <<>>
    /\ Head(iTodo).kind = "ImportDecl"
    /\ imports' = ImportCollector_visit_import_decl(imports, Head(iTodo))
    /\ iTodo' = Tail(iTodo)
    /\ UNCHANGED <<module, schedule, uTodo, used, pc, unused>>

\* Any other item: the default traversal finds no import declaration in it.
ImportVisitOther ==
    /\ iTodo # <<>>
    /\ Head(iTodo).kind # "ImportDecl"
    /\ iTodo' = Tail(iTodo)
    /\ UNCHANGED <<module, schedule, imports, uTodo, used, pc, unused>>

\* identifier_collector.visit_module comes after import_collector.visit_module.
UsageTurn(kinds) ==
    /\ schedule = "sequential" => iTodo = <<>>
    /\ uTodo # <<>>
    /\ Head(uTodo).kind \in kinds

\* An overridden visit method: the node is handled and none of its children
\* is visited.
UsageHandled(after) ==
    /\ used' = after
    /\ uTodo' = Tail(uTodo)
    /\ UNCHANGED <<module, schedule, iTodo, imports, pc, unused>>

UsageVisitIdent ==
    /\ UsageTurn({"Ident"})
    /\ UsageHandled(visit_ident(used, Head(uTodo)))

UsageVisitNewExpr ==
    /\ UsageTurn({"New"})
    /\ UsageHandled(visit_new_expr(used, Head(uTodo)))

UsageVisitImportDecl ==
    /\ UsageTurn({"ImportDecl"})
    /\ UsageHandled(visit_import_decl(used, Head(uTodo)))

UsageVisitTsTypeRef ==
    /\ UsageTurn({"TsTypeRef"})
    /\ UsageHandled(visit_ts_type_ref(used, Head(uTodo)))

UsageVisitTsTypeAnn ==
    /\ UsageTurn({"TsTypeAnn"})
    /\ UsageHandled(visit_ts_type_ann(used, Head(uTodo)))

UsageVisitTsInterfaceDecl ==
    /\ UsageTurn({"TsInterfaceDecl"})
    /\ UsageHandled(visit_ts_interface_decl(used, Head(uTodo)))

UsageVisitTaggedTpl ==
    /\ UsageTurn({"TaggedTpl"})
    /\ UsageHandled(visit_tagged_tpl(used, Head(uTodo)))

\* A node kind without an override: its children are visited next.
UsageVisitChildren ==
    /\ UsageTurn(DefaultKinds)
    /\ uTodo' = Children(Head(uTodo)) \o Tail(uTodo)
    /\ UNCHANGED <<module, schedule, iTodo, imports, used, pc, unused>>

\* The orders in which a hash map may hand out the keys in S.
Orders(S) ==
    {o \in [1..Cardinality(S) -> S] : \A i, j \in DOMAIN o : o[i] = o[j] => i = j}

\* Lower case of a name.
Fold(n) == CASE n = "A" -> "a" [] n = "B" -> "b" [] OTHER -> n

\* The loop with a comparison that ignores case.
RECURSIVE UnusedInIgnoringCase(_, _)
UnusedInIgnoringCase(order, u) ==
    IF order = <<>> THEN <<>>
    ELSE (IF Fold(Head(order)) \notin {Fold(x) : x \in u} THEN <<Head(order)>> ELSE <<>>)
             \o UnusedInIgnoringCase(Tail(order), u)

\* The loop over the entries of the map: a key is pushed when the set does not
\* contain it.
RECURSIVE UnusedIn(_, _)
UnusedIn(order, u) ==
    IF order = <<>> THEN <<>>
    ELSE (IF Head(order) \notin u THEN <<Head(order)>> ELSE <<>>) \o UnusedIn(Tail(order), u)

Reconcile ==
    /\ pc = "collect"
    /\ iTodo = <<>>
    /\ uTodo = <<>>
    /\ \E order \in Orders(DOMAIN imports) : unused' = UnusedIn(order, used)
    /\ pc' = "done"
    /\ UNCHANGED <<module, schedule, iTodo, imports, uTodo, used>>

Next ==
    \/ ImportVisitImportDecl
    \/ ImportVisitOther
    \/ UsageVisitIdent
    \/ UsageVisitNewExpr
    \/ UsageVisitImportDecl
    \/ UsageVisitTsTypeRef
    \/ UsageVisitTsTypeAnn
    \/ UsageVisitTsInterfaceDecl
    \/ UsageVisitTaggedTpl
    \/ UsageVisitChildren
    \/ Reconcile

Spec == Init /\ [][Next]_vars

\* import_collector.visit_module run to its end.
RECURSIVE CollectImports(_, _)
CollectImports(items, map) ==
    IF items = <<>> THEN map
    ELSE CollectImports(Tail(items),
                        IF Head(items).kind = "ImportDecl"
                        THEN ImportCollector_visit_import_decl(map, Head(items))
                        ELSE map)

\* The visit method the node's kind dispatches to.
VisitNode(u, node) ==
    CASE node.kind = "Ident" -> visit_ident(u, node)
      [] node.kind = "New" -> visit_new_expr(u, node)
      [] node.kind = "ImportDecl" -> visit_import_decl(u, node)
      [] node.kind = "TsTypeRef" -> visit_ts_type_ref(u, node)
      [] node.kind = "TsTypeAnn" -> visit_ts_type_ann(u, node)
      [] node.kind = "TsInterfaceDecl" -> visit_ts_interface_decl(u, node)
      [] node.kind = "TaggedTpl" -> visit_tagged_tpl(u, node)
      [] OTHER -> u

\* identifier_collector.visit_module run to its end.
RECURSIVE CollectUsed(_, _)
CollectUsed(todo, u) ==
    IF todo = <<>> THEN u
    ELSE CollectUsed(Children(Head(todo)) \o Tail(todo), VisitNode(u, Head(todo)))

\* The names find_unused_imports returns when its three steps run one after
\* the other.
find_unused_imports(m) ==
    LET import_collector == CollectImports(m, EmptyMap)
        identifier_collector == CollectUsed(m, {})
    IN  {imported \in DOMAIN import_collector : imported \notin identifier_collector}

\* The two passes over the same tree, one after the other or interleaved in
\* every way.
InitPar == \E m \in Modules, s \in {"sequential", "concurrent"} : Start(m, s)

SpecPar == InitPar /\ [][Next]_vars

\* The import and usage passes over modules of import declarations only.
InitImports == \E m \in ImportOnlyModules : Start(m, "sequential")

NextImports ==
    \/ ImportVisitImportDecl
    \/ UsageVisitImportDecl
    \/ Reconcile

SpecImports == InitImports /\ [][NextImports]_vars

\* The reconciliation loop alone, over every binding map and usage set.
ShapesFor(key) == {Named(x) : x \in Names} \cup {Default(key), Namespace(key)}

BindingMaps ==
    UNION {{f \in [D -> UNION {ShapesFor(k) : k \in D}] : \A k \in D : f[k] \in ShapesFor(k)} :
              D \in SUBSET Names}

InitReconcile ==
    /\ module = <<>>
    /\ schedule = "sequential"
    /\ iTodo = <<>>
    /\ uTodo = <<>>
    /\ imports \in BindingMaps
    /\ used \in SUBSET Names
    /\ pc = "collect"
    /\ unused = <<>>

NextReconcile == Reconcile

SpecReconcile == InitReconcile /\ [][NextReconcile]_vars

(***************************************************************************)
(* Properties                                                              *)
(***************************************************************************)
Range(s) == {s[i] : i \in DOMAIN s}

Occurrences(s, n) == Cardinality({i \in DOMAIN s : s[i] = n})

\* C1: once the reconciliation loop has run, a name is in the result if and
\* only if it is a key of the binding map and the usage set does not contain
\* that exact string; with no bindings the result is empty and with no usages
\* it holds every key.
C1_ReconcileIff ==
    pc = "done" =>
        /\ \A n \in Names \cup DOMAIN imports \cup used :
              n \in Range(unused) <=> (n \in DOMAIN imports /\ n \notin used)
        /\ Range(unused) \subseteq DOMAIN imports
        /\ (DOMAIN imports = {} => unused = <<>>)
        /\ (used = {} => Range(unused) = DOMAIN imports)

\* "A" is bound and only "a" is used: "A" is reported.
C1_Witness ==
    /\ pc = "done"
    /\ DOMAIN imports = {"A", "B"}
    /\ used = {"a", "B"}
    /\ unused = <<"A">>

\* The specifiers of the first n declarations of a module, in source order.
RECURSIVE SpecifiersOf(_, _)
SpecifiersOf(items, n) ==
    IF n = 0 THEN <<>>
    ELSE SpecifiersOf(items, n - 1)
             \o (IF items[n].kind = "ImportDecl" THEN items[n].specifiers ELSE <<>>)

\* The shape the binding map is to hold for a specifier.
ShapeOf(specifier) ==
    CASE specifier.kind = "Named" /\ specifier.imported = None -> Named(specifier.local.sym)
      [] specifier.kind = "Named" /\ specifier.imported.kind = "Ident" ->
           Named(specifier.imported.sym)
      [] specifier.kind = "Named" /\ specifier.imported.kind = "Str" ->
           Named(specifier.imported.value)
      [] specifier.kind = "Default" -> Default(specifier.local.sym)
      [] specifier.kind = "Namespace" -> Namespace(specifier.local.sym)

\* C9: after the import pass has processed a prefix of the module, the binding
\* map has exactly one entry per local name declared in the prefix, and the
\* entry has the shape of the last specifier declaring that name.
C9_LastSpecifierWins ==
    LET seen == SpecifiersOf(module, Len(module) - Len(iTodo))
        last(l) == CHOOSE i \in DOMAIN seen :
                      /\ seen[i].local.sym = l
                      /\ \A j \in DOMAIN seen : seen[j].local.sym = l => j <= i
    IN  /\ DOMAIN imports = {seen[i].local.sym : i \in DOMAIN seen}
        /\ \A l \in DOMAIN imports : imports[l] = ShapeOf(seen[last(l)])

\* "A" is declared as a default import and then again as a namespace import.
C9_Witness ==
    /\ iTodo = <<>>
    /\ Len(module) = 2
    /\ module[1].specifiers = <<DefaultSpecifier(Ident("A")), NamedSpecifier(Ident("a"), None)>>
    /\ module[2].specifiers = <<NamespaceSpecifier(Ident("A"))>>
    /\ imports["A"] = Namespace("A")
    /\ imports["a"] = Named("a")

RECURSIVE NamesIn(_, _)
NamesIn(node, typeArgs) ==
    LET in(n) == NamesIn(n, typeArgs)
        all(seq) == UNION {NamesIn(seq[i], typeArgs) : i \in DOMAIN seq}
    IN  CASE node.kind = "Ident" -> {node.sym}
          [] node.kind = "Member" -> in(node.obj) \cup in(node.prop)
          [] node.kind = "New" -> in(node.callee) \cup all(node.args)
          [] node.kind = "TaggedTpl" -> in(node.tag) \cup all(node.exprs)
          [] node.kind = "TsTypeRef" ->
               in(node.type_name) \cup (IF typeArgs THEN all(node.type_params) ELSE {})
          [] node.kind = "TsQualifiedName" -> in(node.left) \cup in(node.right)
          [] node.kind = "TsUnionType" -> all(node.types)
          [] node.kind \in {"TsTypeAnn", "TsPropertySignature", "TsMethodSignature"} ->
               in(node.type_ann)
          [] node.kind = "TsExprWithTypeArgs" -> in(node.expr)
          [] OTHER -> {}

\* The names a top-level item declares (not those an import binds).
DeclaredNames(item) ==
    CASE item.kind = "VarDeclarator" -> {item.name.id.sym}
      [] item.kind \in {"TsTypeAliasDecl", "TsInterfaceDecl"} -> {item.id.sym}
      [] OTHER -> {}

\* The names in expression, type, extends-clause or tagged-template position
\* of a top-level item.
NamesInUsePosition(item, typeArgs) ==
    LET in(n) == NamesIn(n, typeArgs)
        all(seq) == UNION {NamesIn(seq[i], typeArgs) : i \in DOMAIN seq}
    IN  CASE item.kind = "ExprStmt" -> in(item.expr)
          [] item.kind = "VarDeclarator" -> in(item.name.type_ann) \cup in(item.init)
          [] item.kind = "TsTypeAliasDecl" -> in(item.type_ann)
          [] item.kind = "TsInterfaceDecl" -> all(item.extends) \cup all(item.body)
          [] OTHER -> {}

\* The names of the plain identifier expressions in value position.
RECURSIVE ValueIdents(_)
ValueIdents(node) ==
    LET all(seq) == UNION {ValueIdents(seq[i]) : i \in DOMAIN seq}
    IN  CASE node.kind = "Ident" -> {node.sym}
          [] node.kind = "Member" -> ValueIdents(node.obj)
          [] node.kind = "New" -> ValueIdents(node.callee) \cup all(node.args)
          [] node.kind = "TaggedTpl" -> ValueIdents(node.tag) \cup all(node.exprs)
          [] node.kind = "ExprStmt" -> ValueIdents(node.expr)
          [] node.kind = "VarDeclarator" -> ValueIdents(node.init)
          [] OTHER -> {}

\* The usage pass handles the node at the head of its list in this step.
UsageHandles(kind) ==
    /\ uTodo # <<>>
    /\ Head(uTodo).kind = kind
    /\ uTodo' = Tail(uTodo)

\* C2: an imported local name that is in no expression, type, extends-clause
\* or tagged-template position of the module is in the result exactly once.
C2_UnreferencedReportedOnce ==
    pc = "done" =>
        \A n \in DOMAIN imports :
            n \notin UNION {NamesInUsePosition(module[i], TRUE) : i \in DOMAIN module}
                => Occurrences(unused, n) = 1

\* C4: when the usage pass has ended, the name of every plain identifier
\* expression in value position, at any depth and under any parent, is in the
\* usage set.
C4_EveryValueIdentRecorded ==
    uTodo = <<>> => \A i \in DOMAIN module : ValueIdents(module[i]) \subseteq used

\* The expression a statement consists of, if it is an expression statement
\* or a declarator with an initializer.
ExprOf(item) ==
    CASE item.kind = "ExprStmt" -> item.expr
      [] item.kind = "VarDeclarator" -> item.init
      [] OTHER -> None

\* C5: visiting a new expression whose callee is a plain identifier puts that
\* name in the usage set, and visiting one whose callee is a member
\* expression leaves the usage set as it is; a name that is the callee of a
\* new expression of a statement is not in the result.
C5_NewExprRule ==
    /\ [][UsageHandles("New") =>
            LET callee == Head(uTodo).callee
            IN  /\ used \subseteq used'
                /\ callee.kind = "Ident" => callee.sym \in used'
                /\ callee.kind = "Member" => used' = used]_vars
    /\ [](pc = "done" =>
            \A i \in DOMAIN module :
                ExprOf(module[i]).kind = "New" /\ ExprOf(module[i]).callee.kind = "Ident"
                    => ExprOf(module[i]).callee.sym \notin Range(unused))

\* `new A.B()` is the only use of the namespace import A: A is reported.
C5_Witness ==
    /\ pc = "done"
    /\ module = <<ImportDecl(FALSE, <<NamespaceSpecifier(Ident("A"))>>),
                  ExprStmt(NewExpr(MemberExpr(Ident("A"), Ident("B")), <<>>))>>
    /\ used = {}
    /\ unused = <<"A">>

\* The left-most identifier of an entity name.
RECURSIVE LeftMost(_)
LeftMost(name) == IF name.kind = "Ident" THEN name.sym ELSE LeftMost(name.left)

\* C6: when the usage pass has ended, the left-most identifier and the
\* rightmost member name of every qualified type reference that is the type
\* of a type alias are in the usage set, whatever the depth of qualification.
C6_QualifiedBothEnds ==
    uTodo = <<>> =>
        \A i \in DOMAIN module :
            (/\ module[i].kind = "TsTypeAliasDecl"
             /\ module[i].type_ann.kind = "TsTypeRef"
             /\ module[i].type_ann.type_name.kind = "TsQualifiedName")
                => /\ LeftMost(module[i].type_ann.type_name) \in used
                   /\ module[i].type_ann.type_name.right.sym \in used

\* C7: visiting a type reference records names of its type name only, none
\* from its type arguments; an imported name that occurs in the module only
\* inside type arguments is in the result.
C7_TypeArgsNotDecomposed ==
    /\ [][UsageHandles("TsTypeRef") =>
            /\ used \subseteq used'
            /\ used' \subseteq used \cup NamesIn(Head(uTodo).type_name, FALSE)]_vars
    /\ [](pc = "done" =>
            \A n \in DOMAIN imports :
                n \notin UNION {DeclaredNames(module[i])
                                     \cup NamesInUsePosition(module[i], FALSE) :
                                 i \in DOMAIN module}
                    => n \in Range(unused))

\* `type B = B<A>` is the only place the imported A occurs: A is reported.
C7_Witness ==
    /\ pc = "done"
    /\ module = <<ImportDecl(FALSE, <<NamedSpecifier(Ident("A"), None)>>),
                  TsTypeAliasDecl(Ident("B"),
                                  TsTypeRef(Ident("B"), <<TsTypeRef(Ident("A"), <<>>)>>))>>
    /\ used = {"B"}
    /\ unused = <<"A">>

\* C8: visiting a tagged template adds the object identifier of a member tag
\* whose object is a plain identifier, the name of a plain identifier tag, and
\* nothing for any other tag; the property name of a member tag is not added.
C8_TaggedTplRule ==
    [][UsageHandles("TaggedTpl") =>
          LET tag == Head(uTodo).tag
          IN  used' = used \cup
                  (CASE tag.kind = "Member" /\ tag.obj.kind = "Ident" -> {tag.obj.sym}
                     [] tag.kind = "Ident" -> {tag.sym}
                     [] OTHER -> {})]_vars

\* A tagged template with tag A.B uses the import A: nothing is reported and
\* B is not recorded.
C8_Witness ==
    /\ pc = "done"
    /\ module = <<ImportDecl(FALSE, <<NamedSpecifier(Ident("A"), None)>>),
                  ExprStmt(TaggedTpl(MemberExpr(Ident("A"), Ident("B")), <<>>))>>
    /\ used = {"A"}
    /\ unused = <<>>

\* C10: however the steps of the two passes interleave, the tree stays as it
\* is, each pass ends with the output it has when the passes run one after
\* the other, and the result holds the same names.
C10_InterleavingIndependent ==
    /\ [][module' = module]_vars
    /\ [](iTodo = <<>> => imports = CollectImports(module, EmptyMap))
    /\ [](uTodo = <<>> => used = CollectUsed(module, {}))
    /\ [](pc = "done" => Range(unused) = find_unused_imports(module))

\* An interleaved run: the usage pass has ended and has recorded "A" before
\* the import pass visited the first declaration.
C10_Witness ==
    /\ schedule = "concurrent"
    /\ uTodo = <<>>
    /\ iTodo = module
    /\ Len(module) = 2
    /\ module[1].kind = "ImportDecl"
    /\ "A" \in used

====
